---------------------------- MODULE Spec2Model ----------------------------
(***************************************************************************)
(* Model of the rounded annular-sector outline builder (buildPath and its  *)
(* helpers intersect, computeCornerTangents, calcCircleCenter and          *)
(* normalizeCornerRadius).                                                 *)
(*                                                                         *)
(* Numbers.  JavaScript doubles are modelled in fixed point: a length or a *)
(* pure number x is the integer x * Scale, an angle (radians) likewise, so *)
(* that the program's epsilon 1e-4 is exactly one unit.  Products and      *)
(* quotients are rescaled (Mul, Div) and truncate toward zero; anything    *)
(* below 1e-4 is therefore lost, and the input sets keep away from the     *)
(* places where that would change a branch (sweeps strictly between one    *)
(* unit and about one degree, sweeps within 0.02 rad below pi, ring widths *)
(* strictly between 0 and 0.1).  Division by zero gives the IEEE results:  *)
(* +/-Infinity as +/-2^29 and NaN as a value below -Infinity, for which    *)
(* every "x > y" test of the program is false and Math.min returns NaN.    *)
(***************************************************************************)
EXTENDS Integers, Sequences, FiniteSets, TLC

\* const e = 1e-4: the unit of the fixed-point representation.
e == 1

\* Units per 1.0 (1.0 = 10^4 * e).
Scale == 10000 * e

\* const PI = Math.PI, in units of 1e-4 rad.
PI == 31416

PI2 == PI * 2

Infinity == 2 ^ 29

NaN == 0 - Infinity - 1

---------------------------------------------------------------------------
(* Fixed-point arithmetic *)

mathAbs(x) == IF x < 0 THEN 0 - x ELSE x

\* Math.max and Math.min: NaN if an argument is NaN.
mathMax(x, y) == IF x = NaN \/ y = NaN THEN NaN ELSE IF x > y THEN x ELSE y

mathMin(x, y) == IF x = NaN \/ y = NaN THEN NaN ELSE IF x < y THEN x ELSE y

Sign(x) == IF x < 0 THEN 0 - 1 ELSE 1

\* a * b / Scale for a, b >= 0, without leaving 32 bits; a product the
\* representation cannot hold is Infinity.
MulPos(a, b) ==
    LET ah == a \div Scale
        al == a % Scale
        bh == b \div Scale
        bl == b % Scale
    IN  IF ah > 0 /\ b >= Infinity \div (ah + 1)
        THEN Infinity
        ELSE mathMin(Infinity, ah * b + al * bh + (al * bl) \div Scale)

\* The product x * y of two doubles.
Mul(x, y) == Sign(x) * Sign(y) * MulPos(mathAbs(x), mathAbs(y))

\* x * Scale / y for x >= 0, y > 0, by long division in base 100; a quotient
\* the representation cannot hold is Infinity.
DivPos(x, y) ==
    IF y >= 20000000
    THEN x \div (y \div Scale)
    ELSE LET q0 == x \div y
             r0 == x % y
             q1 == (r0 * 100) \div y
             r1 == (r0 * 100) % y
             q2 == (r1 * 100) \div y
         IN  IF q0 >= Infinity \div Scale
             THEN Infinity
             ELSE q0 * Scale + q1 * 100 + q2

\* The quotient x / y of two doubles, with the IEEE results for y = 0.
Div(x, y) ==
    IF y = 0
    THEN IF x > 0 THEN Infinity ELSE IF x < 0 THEN 0 - Infinity ELSE NaN
    ELSE Sign(x) * Sign(y) * DivPos(mathAbs(x), mathAbs(y))

RECURSIVE ISqrtIter(_, _, _)
\* The largest k in lo..hi with k * k <= n (lo * lo <= n is given).
ISqrtIter(n, lo, hi) ==
    IF lo >= hi
    THEN lo
    ELSE LET mid == (lo + hi + 1) \div 2
         IN  IF mid * mid <= n
             THEN ISqrtIter(n, mid, hi)
             ELSE ISqrtIter(n, lo, mid - 1)

ISqrt(n) == ISqrtIter(n, 0, 46340)

\* Math.sqrt: the square root of a double (0 for a negative argument never
\* arises: every call site passes a sum of squares or a Math.max(0, ...)).
mathSqrt(x) ==
    IF x <= 0
    THEN 0
    ELSE IF x <= 200000
         THEN ISqrt(x * Scale)
         ELSE LET y0 == ISqrt(x) * 100
              IN  (y0 + Div(x, y0)) \div 2


\* Math.cos at the angles the model draws, rounded to 1e-4.
CosTable ==
    (0 - 15708 :> 0) @@ (0 :> 10000) @@ (1 :> 10000) @@ (349 :> 9994)
    @@ (1745 :> 9848) @@ (5236 :> 8660) @@ (15708 :> 0) @@ (20944 :> 0 - 5000)
    @@ (31416 :> 0 - 10000) @@ (47124 :> 0) @@ (62831 :> 10000)
    @@ (62832 :> 10000) @@ (125664 :> 10000)

\* Math.sin at the angles the model draws, rounded to 1e-4.
SinTable ==
    (0 - 15708 :> 0 - 10000) @@ (0 :> 0) @@ (1 :> 1) @@ (349 :> 349)
    @@ (1745 :> 1736) @@ (5236 :> 5000) @@ (15708 :> 10000) @@ (20944 :> 8660)
    @@ (31416 :> 0) @@ (47124 :> 0 - 10000) @@ (62831 :> 0 - 1)
    @@ (62832 :> 0) @@ (125664 :> 0)

mathCos(a) == CosTable[a]

mathSin(a) == SinTable[a]

\* Math.atan2(y, x): octant reduction, then
\* atan(z) = z * (pi/4 + 0.273 * (1 - z)) on [0, 1] (within 0.004 rad).
mathATan2(y, x) ==
    LET ax == mathAbs(x)
        ay == mathAbs(y)
        z  == IF ax = 0 /\ ay = 0 THEN 0
              ELSE Div(mathMin(ax, ay), mathMax(ax, ay))
        at == Mul(z, 7854) + Mul(Mul(2730, z), Scale - z)
        oc == IF ay > ax THEN PI \div 2 - at ELSE at
        hp == IF x < 0 THEN PI - oc ELSE oc
    IN  IF y < 0 THEN 0 - hp ELSE hp

\* Math.sin(Math.acos(c) / 2), by the half-angle identity sqrt((1 - c) / 2);
\* c is clamped to [-1, 1].
SinHalfACos(c) ==
    LET cc == mathMax(0 - Scale, mathMin(Scale, c))
    IN  mathSqrt((Scale - cc) \div 2)

---------------------------------------------------------------------------
(* Geometry kernel *)

\* intersect: <<x, y>>, or <<>> for the function's bare "return".
intersect(x0, y0, x1, y1, x2, y2, x3, y3) ==
    LET dx10 == x1 - x0
        dy10 == y1 - y0
        dx32 == x3 - x2
        dy32 == y3 - y2
        t    == Mul(dy32, dx10) - Mul(dx32, dy10)
        t2   == Div(Mul(dx32, y0 - y2) - Mul(dy32, x0 - x2), t)
    IN  IF Mul(t, t) < e
        THEN <<>>
        ELSE <<x0 + Mul(t2, dx10), y0 + Mul(t2, dy10)>>

\* Lines 63-82 of computeCornerTangents: the closer of the two candidate
\* centres (cxa, cya), (cx1, cy1) to the midpoint (x00, y00), and the result.
cornerResult(x00, y00, cxa, cya, cx1, cy1, radius, r, ox, oy) ==
    LET dx0 == cxa - x00
        dy0 == cya - y00
        dx1 == cx1 - x00
        dy1 == cy1 - y00
        far == Mul(dx0, dx0) + Mul(dy0, dy0) > Mul(dx1, dx1) + Mul(dy1, dy1)
        cx0 == IF far THEN cx1 ELSE cxa
        cy0 == IF far THEN cy1 ELSE cya
    IN  [cx |-> cx0, cy |-> cy0, x0 |-> 0 - ox, y0 |-> 0 - oy,
         x1 |-> Mul(cx0, Div(radius, r) - Scale),
         y1 |-> Mul(cy0, Div(radius, r) - Scale)]

\* Lines 59-62 of computeCornerTangents: the two candidate centres, from
\* the offset line's dx, dy, d2, s and d.
cornerCentres(x00, y00, dx, dy, d2, s, d, radius, r, ox, oy) ==
    cornerResult(x00, y00,
                 Div(Mul(s, dy) - Mul(dx, d), d2),
                 Div(Mul(0 - s, dx) - Mul(dy, d), d2),
                 Div(Mul(s, dy) + Mul(dx, d), d2),
                 Div(Mul(0 - s, dx) + Mul(dy, d), d2),
                 radius, r, ox, oy)

\* Lines 51-58 of computeCornerTangents, for the offset line through
\* (x11, y11) and (x10, y10).
cornerLine(x11, y11, x10, y10, radius, r, ox, oy) ==
    LET dx == x10 - x11
        dy == y10 - y11
        d2 == Mul(dx, dx) + Mul(dy, dy)
        s  == Mul(x11, y10) - Mul(x10, y11)
    IN  cornerCentres((x11 + x10) \div 2, (y11 + y10) \div 2, dx, dy, d2, s,
                      (IF dy < 0 THEN 0 - 1 ELSE 1)
                      * mathSqrt(mathMax(0, Mul(Mul(r, r), d2) - Mul(s, s))),
                      radius, r, ox, oy)

\* Lines 47-50 and 56 of computeCornerTangents, for the offset (ox, oy).
cornerOffset(x0, y0, x1, y1, radius, cr, ox, oy) ==
    cornerLine(x0 + ox, y0 + oy, x1 + ox, y1 + oy, radius, radius - cr, ox, oy)

computeCornerTangents(x0, y0, x1, y1, radius, cr, clockwise) ==
    LET x01 == x0 - x1
        y01 == y0 - y1
        lo  == Div(IF clockwise THEN cr ELSE 0 - cr,
                   mathSqrt(Mul(x01, x01) + Mul(y01, y01)))
    IN  cornerOffset(x0, y0, x1, y1, radius, cr, Mul(lo, y01), Mul(0 - lo, x01))

calcCircleCenter(x, y, r, angle) ==
    [x |-> x + Mul(r, mathCos(angle)), y |-> y + Mul(r, mathSin(angle))]

---------------------------------------------------------------------------
(* Imported helpers: contain/text parsePercent, core/PathProxy
   normalizeArcAngles.  A corner-radius entry is [pct |-> FALSE, v |-> x]
   for the number x and [pct |-> TRUE, v |-> p] for the string "p%". *)

Num(x) == [pct |-> FALSE, v |-> x]

Pct(p) == [pct |-> TRUE, v |-> p]

\* parsePercent(value, maxValue): "p%" is p / 100 * maxValue, a number is
\* itself.
parsePercent(value, maxValue) ==
    IF value.pct THEN Mul(value.v * (Scale \div 100), maxValue) ELSE value.v

\* JavaScript's x % m for m > 0: the remainder has the sign of x.
JsRem(x, m) == IF x < 0 THEN 0 - ((0 - x) % m) ELSE x % m

\* normalizeArcAngles(angles, anticlockwise): the start angle is brought into
\* [0, 2 pi), the end angle is shifted by the same amount and then moved by
\* whole turns to the side of the start angle the winding asks for, at most
\* one turn away.
normalizeArcAngles(angles, anticlockwise) ==
    LET m        == JsRem(angles[1], PI2)
        newStart == IF m < 0 THEN m + PI2 ELSE m
        delta    == newStart - angles[1]
        shifted  == angles[2] + delta
        newEnd   ==
            IF ~anticlockwise /\ shifted - newStart >= PI2
            THEN newStart + PI2
            ELSE IF anticlockwise /\ newStart - shifted >= PI2
            THEN newStart - PI2
            ELSE IF ~anticlockwise /\ newStart > shifted
            THEN newStart + (PI2 - JsRem(newStart - shifted, PI2))
            ELSE IF anticlockwise /\ newStart < shifted
            THEN newStart - (PI2 - JsRem(shifted - newStart, PI2))
            ELSE shifted
    IN  <<newStart, newEnd>>

---------------------------------------------------------------------------
(* normalizeCornerRadius.  A cornerRadius is [arr |-> FALSE, val |-> entry]
   or [arr |-> TRUE, val |-> <<entry, ...>>]. *)

Scalar(x) == [arr |-> FALSE, val |-> x]

List(xs) == [arr |-> TRUE, val |-> xs]

\* undefined, which every arithmetic use turns into NaN.
Undefined == [pct |-> FALSE, v |-> NaN]

\* cr[i] of a JavaScript array (0-based i): undefined past the end.
At(xs, i) == IF i + 1 <= Len(xs) THEN xs[i + 1] ELSE Undefined

\* expandCornerRadius with two entries expanded as [a, b, a, b].
expandCornerRadiusAlternating(cr) ==
    IF cr.arr
    THEN LET len == Len(cr.val)
         IN  IF len = 4 THEN cr.val
             ELSE IF len = 3 THEN cr.val \o <<At(cr.val, len - 1)>>
             ELSE IF len = 2
             THEN <<At(cr.val, 0), At(cr.val, 1), At(cr.val, 0), At(cr.val, 1)>>
             ELSE <<At(cr.val, 0), At(cr.val, 0), Num(0), Num(0)>>
    ELSE <<cr.val, cr.val, cr.val, cr.val>>

\* expandCornerRadius with a list of any other length expanded as a scalar.
expandCornerRadiusAllSlots(cr) ==
    IF cr.arr
    THEN LET len == Len(cr.val)
         IN  IF len = 4 THEN cr.val
             ELSE IF len = 3 THEN cr.val \o <<At(cr.val, len - 1)>>
             ELSE IF len = 2
             THEN <<At(cr.val, 0), At(cr.val, 0), At(cr.val, 1), At(cr.val, 1)>>
             ELSE <<At(cr.val, 0), At(cr.val, 0), At(cr.val, 0), At(cr.val, 0)>>
    ELSE <<cr.val, cr.val, cr.val, cr.val>>

\* The four entries the shorthand expands to, before percentages resolve.
expandCornerRadius(cr) ==
    IF cr.arr
    THEN LET len == Len(cr.val)
         IN  IF len = 4 THEN cr.val
             ELSE IF len = 3 THEN cr.val \o <<At(cr.val, len - 1)>>
             ELSE IF len = 2
             THEN <<At(cr.val, 0), At(cr.val, 0), At(cr.val, 1), At(cr.val, 1)>>
             ELSE <<At(cr.val, 0), At(cr.val, 0), Num(0), Num(0)>>
    ELSE <<cr.val, cr.val, cr.val, cr.val>>

normalizeCornerRadius(cr, r0, r) ==
    LET arr == expandCornerRadius(cr)
    IN  [idx \in 1..4 |-> parsePercent(arr[idx], IF idx - 1 < 2 THEN r0 ELSE r)]

---------------------------------------------------------------------------
(* Path commands *)

MoveTo(x, y) == [op |-> "moveTo", x |-> x, y |-> y]

LineTo(x, y) == [op |-> "lineTo", x |-> x, y |-> y]

Arc(cx, cy, radius, startAngle, endAngle, anticlockwise) ==
    [op |-> "arc", cx |-> cx, cy |-> cy, radius |-> radius,
     startAngle |-> startAngle, endAngle |-> endAngle,
     anticlockwise |-> anticlockwise]

ClosePathCmd == [op |-> "closePath"]

---------------------------------------------------------------------------
(* buildPath, phase by phase.  s is the shape descriptor
   [cx, cy, startAngle, endAngle, clockwise, r, r0, cornerRadius]. *)

\* buildPathRadii with hasRadius and hasInnerRadius tested against epsilon.
buildPathRadiiEpsilon(s) ==
    LET radius0        == mathMax(s.r, 0)
        innerRadius0   == mathMax(s.r0, 0)
        hasRadius      == radius0 > e
        hasInnerRadius == innerRadius0 > e
        radius1        == IF ~hasRadius THEN innerRadius0 ELSE radius0
        innerRadius1   == IF ~hasRadius THEN 0 ELSE innerRadius0
        swap           == innerRadius1 > radius1
    IN  [returns     |-> ~hasRadius /\ ~hasInnerRadius,
         radius      |-> IF swap THEN innerRadius1 ELSE radius1,
         innerRadius |-> IF swap THEN radius1 ELSE innerRadius1]

\* Lines 135-156: the effective radii, and whether the function returns at
\* once.
buildPathRadii(s) ==
    LET radius0        == mathMax(s.r, 0)
        innerRadius0   == mathMax(s.r0, 0)
        hasRadius      == radius0 > 0
        hasInnerRadius == innerRadius0 > 0
        radius1        == IF ~hasRadius THEN innerRadius0 ELSE radius0
        innerRadius1   == IF ~hasRadius THEN 0 ELSE innerRadius0
        swap           == innerRadius1 > radius1
    IN  [returns     |-> ~hasRadius /\ ~hasInnerRadius,
         radius      |-> IF swap THEN innerRadius1 ELSE radius1,
         innerRadius |-> IF swap THEN radius1 ELSE innerRadius1]

\* Lines 162-171: the sweep.
buildPathArc(s) ==
    IF s.startAngle = s.endAngle
    THEN 0
    ELSE LET tmpAngles == normalizeArcAngles(<<s.startAngle, s.endAngle>>,
                                             ~s.clockwise)
         IN  mathAbs(tmpAngles[1] - tmpAngles[2])

\* Line 173: <<icrStart, icrEnd, ocrStart, ocrEnd>>.
buildPathCornerRadii(s) == normalizeCornerRadius(s.cornerRadius, s.r0, s.r)

\* isPoint with the radius tested against zero.
isPointZero(radius) == ~(radius > 0)

\* Line 176.
isPoint(radius) == ~(radius > e)

\* Line 180.
isCircle(arc) == arc > PI2 - e

\* circleCmds with the hole drawn in the winding of the outer circle.
circleCmdsSameWinding(s, radius, innerRadius) ==
    LET po == calcCircleCenter(s.cx, s.cy, radius, s.startAngle)
        pi == calcCircleCenter(s.cx, s.cy, innerRadius, s.endAngle)
    IN  <<MoveTo(po.x, po.y),
          Arc(s.cx, s.cy, radius, s.startAngle, s.endAngle, ~s.clockwise)>>
        \o (IF innerRadius > e
            THEN <<MoveTo(pi.x, pi.y),
                   Arc(s.cx, s.cy, innerRadius, s.endAngle, s.startAngle,
                       ~s.clockwise)>>
            ELSE <<>>)

\* Lines 181-189: the circle or annulus.
circleCmds(s, radius, innerRadius) ==
    LET po == calcCircleCenter(s.cx, s.cy, radius, s.startAngle)
        pi == calcCircleCenter(s.cx, s.cy, innerRadius, s.endAngle)
    IN  <<MoveTo(po.x, po.y),
          Arc(s.cx, s.cy, radius, s.startAngle, s.endAngle, ~s.clockwise)>>
        \o (IF innerRadius > e
            THEN <<MoveTo(pi.x, pi.y),
                   Arc(s.cx, s.cy, innerRadius, s.endAngle, s.startAngle,
                       s.clockwise)>>
            ELSE <<>>)

\* Lines 204-219: the four corner points, relative to the centre.
Xrs(s, radius) == Mul(radius, mathCos(s.startAngle))

Yrs(s, radius) == Mul(radius, mathSin(s.startAngle))

Xire(s, innerRadius) == Mul(innerRadius, mathCos(s.endAngle))

Yire(s, innerRadius) == Mul(innerRadius, mathSin(s.endAngle))

Xre(s, radius) == Mul(radius, mathCos(s.endAngle))

Yre(s, radius) == Mul(radius, mathSin(s.endAngle))

Xirs(s, innerRadius) == Mul(innerRadius, mathCos(s.startAngle))

Yirs(s, innerRadius) == Mul(innerRadius, mathSin(s.startAngle))

\* Line 193.
halfRdOf(radius, innerRadius) == mathAbs(radius - innerRadius) \div 2

\* clampCorner against the whole ring width.
clampCornerToWidth(halfRd, cr) == mathMin(halfRd * 2, cr)

\* Lines 194-197: one requested corner radius clamped to the half ring width.
clampCorner(halfRd, cr) == mathMin(halfRd, cr)

\* edgeIntersection with the line through the two outer points and the line
\* through the two inner points.
chordIntersection(s, radius, innerRadius) ==
    intersect(Xrs(s, radius), Yrs(s, radius),
              Xre(s, radius), Yre(s, radius),
              Xirs(s, innerRadius), Yirs(s, innerRadius),
              Xire(s, innerRadius), Yire(s, innerRadius))

\* Line 223: the intersection of the start edge and the end edge.
edgeIntersection(s, radius, innerRadius) ==
    intersect(Xrs(s, radius), Yrs(s, radius),
              Xirs(s, innerRadius), Yirs(s, innerRadius),
              Xre(s, radius), Yre(s, radius),
              Xire(s, innerRadius), Yire(s, innerRadius))

\* Lines 225-232: a and b of the stricter bound, for the intersection it.
tangentFactors(s, radius, it) ==
    LET x0 == Xrs(s, radius) - it[1]
        y0 == Yrs(s, radius) - it[2]
        x1 == Xre(s, radius) - it[1]
        y1 == Yre(s, radius) - it[2]
        c  == Div(Mul(x0, x1) + Mul(y0, y1),
                  Mul(mathSqrt(Mul(x0, x0) + Mul(y0, y0)),
                      mathSqrt(Mul(x1, x1) + Mul(y1, y1))))
    IN  [a |-> Div(Scale, SinHalfACos(c)),
         b |-> mathSqrt(Mul(it[1], it[1]) + Mul(it[2], it[2]))]

\* outerLimit without the "+ 1".
outerLimitNoPlus(radius, ab) == Div(radius - ab.b, ab.a)

\* Line 233.
outerLimit(radius, ab) == Div(radius - ab.b, ab.a + Scale)

\* Line 234.
innerLimit(innerRadius, ab) == Div(innerRadius - ab.b, ab.a - Scale)

\* Line 215.
hasCorners(ocrMax, icrMax) == ocrMax > e \/ icrMax > e

\* underHalfTurn with the sweep tested against a full turn.
underFullTurn(arc) == arc < PI2

\* Line 222.
underHalfTurn(arc) == arc < PI

\* Lines 193-237: the clamped corner radii.  cr is the result of line 173.
sectorClamp(s, radius, innerRadius, arc, cr) ==
    LET halfRd == halfRdOf(radius, innerRadius)
        ocrs   == clampCorner(halfRd, cr[3])
        ocre   == clampCorner(halfRd, cr[4])
        icrs   == clampCorner(halfRd, cr[1])
        icre   == clampCorner(halfRd, cr[2])
        om     == mathMax(ocrs, ocre)
        im     == mathMax(icrs, icre)
        called == hasCorners(om, im) /\ underHalfTurn(arc)
        it     == IF called THEN edgeIntersection(s, radius, innerRadius)
                  ELSE <<>>
        ab     == tangentFactors(s, radius, it)
    IN  [ocrMax        |-> om,
         icrMax        |-> im,
         limitedOcrMax |-> IF it # <<>> THEN mathMin(om, outerLimit(radius, ab))
                           ELSE om,
         limitedIcrMax |-> IF it # <<>>
                           THEN mathMin(im, innerLimit(innerRadius, ab))
                           ELSE im,
         intersectCalled |-> called,
         it            |-> it]


\* isCollapsed with the sweep tested against zero.
isCollapsedZero(arc) == ~(arc > 0)

\* Line 240.
isCollapsed(arc) == ~(arc > e)

\* outerCornerArcs without the merged case.
outerCornerArcsUnmerged(s, radius, ocrMax, limitedOcrMax, crStart, crEnd, ct0, ct1) ==
    <<MoveTo(s.cx + ct0.cx + ct0.x0, s.cy + ct0.cy + ct0.y0),
      Arc(s.cx + ct0.cx, s.cy + ct0.cy, crStart,
          mathATan2(ct0.y0, ct0.x0), mathATan2(ct0.y1, ct0.x1), ~s.clockwise),
      Arc(s.cx, s.cy, radius,
          mathATan2(ct0.cy + ct0.y1, ct0.cx + ct0.x1),
          mathATan2(ct1.cy + ct1.y1, ct1.cx + ct1.x1), ~s.clockwise),
      Arc(s.cx + ct1.cx, s.cy + ct1.cy, crEnd,
          mathATan2(ct1.y1, ct1.x1), mathATan2(ct1.y0, ct1.x0), ~s.clockwise)>>

\* Lines 250-265: the outer ring with corners, for the fillets ct0 and ct1.
outerCornerArcs(s, radius, ocrMax, limitedOcrMax, crStart, crEnd, ct0, ct1) ==
    <<MoveTo(s.cx + ct0.cx + ct0.x0, s.cy + ct0.cy + ct0.y0)>>
    \o (IF limitedOcrMax < ocrMax
        THEN <<Arc(s.cx + ct0.cx, s.cy + ct0.cy, limitedOcrMax,
                   mathATan2(ct0.y0, ct0.x0), mathATan2(ct1.y0, ct1.x0),
                   ~s.clockwise)>>
        ELSE <<Arc(s.cx + ct0.cx, s.cy + ct0.cy, crStart,
                   mathATan2(ct0.y0, ct0.x0), mathATan2(ct0.y1, ct0.x1),
                   ~s.clockwise),
               Arc(s.cx, s.cy, radius,
                   mathATan2(ct0.cy + ct0.y1, ct0.cx + ct0.x1),
                   mathATan2(ct1.cy + ct1.y1, ct1.cx + ct1.x1),
                   ~s.clockwise),
               Arc(s.cx + ct1.cx, s.cy + ct1.cy, crEnd,
                   mathATan2(ct1.y1, ct1.x1), mathATan2(ct1.y0, ct1.x0),
                   ~s.clockwise)>>)

\* Lines 245-265: the outer ring with corners, for crStart and crEnd.
outerCornerRing(s, radius, innerRadius, ocrMax, limitedOcrMax, crStart, crEnd) ==
    outerCornerArcs(s, radius, ocrMax, limitedOcrMax, crStart, crEnd,
        computeCornerTangents(Xirs(s, innerRadius), Yirs(s, innerRadius),
                              Xrs(s, radius), Yrs(s, radius),
                              radius, crStart, s.clockwise),
        computeCornerTangents(Xre(s, radius), Yre(s, radius),
                              Xire(s, innerRadius), Yire(s, innerRadius),
                              radius, crEnd, s.clockwise))

\* outerCornerCmds with the radii of the two fillets exchanged.
outerCornerCmdsExchanged(s, radius, innerRadius, ocrStart, ocrEnd, ocrMax, limitedOcrMax) ==
    outerCornerRing(s, radius, innerRadius, ocrMax, limitedOcrMax,
                    mathMin(ocrEnd, limitedOcrMax),
                    mathMin(ocrStart, limitedOcrMax))

\* Lines 244-266.
outerCornerCmds(s, radius, innerRadius, ocrStart, ocrEnd, ocrMax, limitedOcrMax) ==
    outerCornerRing(s, radius, innerRadius, ocrMax, limitedOcrMax,
                    mathMin(ocrStart, limitedOcrMax),
                    mathMin(ocrEnd, limitedOcrMax))

\* hasOuterCorners with the bound tested against zero.
hasOuterCornersFromZero(limitedOcrMax) == limitedOcrMax >= 0

\* Line 244.
hasOuterCorners(limitedOcrMax) == limitedOcrMax > e

\* Lines 239-271: the outer ring.
outerRingCmds(s, radius, innerRadius, arc, ocrStart, ocrEnd, ocrMax, limitedOcrMax) ==
    IF isCollapsed(arc)
    THEN <<MoveTo(s.cx + Xrs(s, radius), s.cy + Yrs(s, radius))>>
    ELSE IF hasOuterCorners(limitedOcrMax)
    THEN outerCornerCmds(s, radius, innerRadius, ocrStart, ocrEnd, ocrMax,
                         limitedOcrMax)
    ELSE <<MoveTo(s.cx + Xrs(s, radius), s.cy + Yrs(s, radius)),
           Arc(s.cx, s.cy, radius, s.startAngle, s.endAngle, ~s.clockwise)>>

\* The computeCornerTangents calls of lines 247-248, as <<radius, cr>> pairs.
outerRingCalls(radius, arc, ocrStart, ocrEnd, limitedOcrMax) ==
    IF ~isCollapsed(arc) /\ hasOuterCorners(limitedOcrMax)
    THEN <<[fn |-> "computeCornerTangents", radius |-> radius,
            cr |-> mathMin(ocrStart, limitedOcrMax)],
           [fn |-> "computeCornerTangents", radius |-> radius,
            cr |-> mathMin(ocrEnd, limitedOcrMax)]>>
    ELSE <<>>

\* isSectorWithoutHole with the inner radius tested against zero.
isSectorWithoutHoleZero(innerRadius, arc) == ~(innerRadius > 0) \/ ~(arc > e)

\* Line 274.
isSectorWithoutHole(innerRadius, arc) == ~(innerRadius > e) \/ ~(arc > e)

\* innerCornerArcs with a LineTo to the inner end point before the LineTo to
\* the fillet.
innerCornerArcsFromEdge(s, innerRadius, icrMax, limitedIcrMax, crStart, crEnd, ct0, ct1) ==
    <<LineTo(s.cx + Xire(s, innerRadius), s.cy + Yire(s, innerRadius)),
      LineTo(s.cx + ct0.cx + ct0.x0, s.cy + ct0.cy + ct0.y0)>>
    \o (IF limitedIcrMax < icrMax
        THEN <<Arc(s.cx + ct0.cx, s.cy + ct0.cy, limitedIcrMax,
                   mathATan2(ct0.y0, ct0.x0), mathATan2(ct1.y0, ct1.x0),
                   ~s.clockwise)>>
        ELSE <<Arc(s.cx + ct0.cx, s.cy + ct0.cy, crEnd,
                   mathATan2(ct0.y0, ct0.x0), mathATan2(ct0.y1, ct0.x1),
                   ~s.clockwise),
               Arc(s.cx, s.cy, innerRadius,
                   mathATan2(ct0.cy + ct0.y1, ct0.cx + ct0.x1),
                   mathATan2(ct1.cy + ct1.y1, ct1.cx + ct1.x1),
                   s.clockwise),
               Arc(s.cx + ct1.cx, s.cy + ct1.cy, crStart,
                   mathATan2(ct1.y1, ct1.x1), mathATan2(ct1.y0, ct1.x0),
                   ~s.clockwise)>>)

\* innerCornerArcs with the inner fillets drawn in the winding of the inner
\* main arc.
innerCornerArcsMirrored(s, innerRadius, icrMax, limitedIcrMax, crStart, crEnd, ct0, ct1) ==
    <<LineTo(s.cx + ct0.cx + ct0.x0, s.cy + ct0.cy + ct0.y0)>>
    \o (IF limitedIcrMax < icrMax
        THEN <<Arc(s.cx + ct0.cx, s.cy + ct0.cy, limitedIcrMax,
                   mathATan2(ct0.y0, ct0.x0), mathATan2(ct1.y0, ct1.x0),
                   s.clockwise)>>
        ELSE <<Arc(s.cx + ct0.cx, s.cy + ct0.cy, crEnd,
                   mathATan2(ct0.y0, ct0.x0), mathATan2(ct0.y1, ct0.x1),
                   s.clockwise),
               Arc(s.cx, s.cy, innerRadius,
                   mathATan2(ct0.cy + ct0.y1, ct0.cx + ct0.x1),
                   mathATan2(ct1.cy + ct1.y1, ct1.cx + ct1.x1),
                   s.clockwise),
               Arc(s.cx + ct1.cx, s.cy + ct1.cy, crStart,
                   mathATan2(ct1.y1, ct1.x1), mathATan2(ct1.y0, ct1.x0),
                   s.clockwise)>>)

\* Lines 283-298: the inner ring with corners, for the fillets ct0 and ct1.
innerCornerArcs(s, innerRadius, icrMax, limitedIcrMax, crStart, crEnd, ct0, ct1) ==
    <<LineTo(s.cx + ct0.cx + ct0.x0, s.cy + ct0.cy + ct0.y0)>>
    \o (IF limitedIcrMax < icrMax
        THEN <<Arc(s.cx + ct0.cx, s.cy + ct0.cy, limitedIcrMax,
                   mathATan2(ct0.y0, ct0.x0), mathATan2(ct1.y0, ct1.x0),
                   ~s.clockwise)>>
        ELSE <<Arc(s.cx + ct0.cx, s.cy + ct0.cy, crEnd,
                   mathATan2(ct0.y0, ct0.x0), mathATan2(ct0.y1, ct0.x1),
                   ~s.clockwise),
               Arc(s.cx, s.cy, innerRadius,
                   mathATan2(ct0.cy + ct0.y1, ct0.cx + ct0.x1),
                   mathATan2(ct1.cy + ct1.y1, ct1.cx + ct1.x1),
                   s.clockwise),
               Arc(s.cx + ct1.cx, s.cy + ct1.cy, crStart,
                   mathATan2(ct1.y1, ct1.x1), mathATan2(ct1.y0, ct1.x0),
                   ~s.clockwise)>>)

\* Lines 279-298: the inner ring with corners, for crStart and crEnd.
innerCornerRing(s, radius, innerRadius, icrMax, limitedIcrMax, crStart, crEnd) ==
    innerCornerArcs(s, innerRadius, icrMax, limitedIcrMax, crStart, crEnd,
        computeCornerTangents(Xire(s, innerRadius), Yire(s, innerRadius),
                              Xre(s, radius), Yre(s, radius),
                              innerRadius, 0 - crEnd, s.clockwise),
        computeCornerTangents(Xrs(s, radius), Yrs(s, radius),
                              Xirs(s, innerRadius), Yirs(s, innerRadius),
                              innerRadius, 0 - crStart, s.clockwise))

\* Lines 278-299.
innerCornerCmds(s, radius, innerRadius, icrStart, icrEnd, icrMax, limitedIcrMax) ==
    innerCornerRing(s, radius, innerRadius, icrMax, limitedIcrMax,
                    mathMin(icrStart, limitedIcrMax),
                    mathMin(icrEnd, limitedIcrMax))

\* Line 278.
hasInnerCorners(limitedIcrMax) == limitedIcrMax > e

\* Lines 273-303: the inner ring.
innerRingCmds(s, radius, innerRadius, arc, icrStart, icrEnd, icrMax, limitedIcrMax) ==
    IF isSectorWithoutHole(innerRadius, arc)
    THEN <<LineTo(s.cx + Xire(s, innerRadius), s.cy + Yire(s, innerRadius))>>
    ELSE IF hasInnerCorners(limitedIcrMax)
    THEN innerCornerCmds(s, radius, innerRadius, icrStart, icrEnd, icrMax,
                         limitedIcrMax)
    ELSE <<Arc(s.cx, s.cy, innerRadius, s.endAngle, s.startAngle, s.clockwise)>>

\* The computeCornerTangents calls of lines 281-282.
innerRingCalls(innerRadius, arc, icrStart, icrEnd, limitedIcrMax) ==
    IF ~isSectorWithoutHole(innerRadius, arc) /\ hasInnerCorners(limitedIcrMax)
    THEN <<[fn |-> "computeCornerTangents", radius |-> innerRadius,
            cr |-> 0 - mathMin(icrEnd, limitedIcrMax)],
           [fn |-> "computeCornerTangents", radius |-> innerRadius,
            cr |-> 0 - mathMin(icrStart, limitedIcrMax)]>>
    ELSE <<>>

\* Lines 175-304: everything the call emits before closePath.
bodyCmds(s, radius, innerRadius, arc, cr) ==
    IF isPoint(radius)
    THEN <<MoveTo(s.cx, s.cy)>>
    ELSE IF isCircle(arc)
    THEN circleCmds(s, radius, innerRadius)
    ELSE LET k == sectorClamp(s, radius, innerRadius, arc, cr)
         IN  outerRingCmds(s, radius, innerRadius, arc, cr[3], cr[4],
                           k.ocrMax, k.limitedOcrMax)
             \o innerRingCmds(s, radius, innerRadius, arc, cr[1], cr[2],
                              k.icrMax, k.limitedIcrMax)

\* buildPath as a function of the shape: the commands the sink receives.
buildPath(s) ==
    LET rr == buildPathRadii(s)
    IN  IF rr.returns
        THEN <<>>
        ELSE bodyCmds(s, rr.radius, rr.innerRadius, buildPathArc(s),
                      buildPathCornerRadii(s))
             \o <<ClosePathCmd>>

---------------------------------------------------------------------------
(* The inputs one call is drawn from *)

\* How many entries of each list below a call may use.
NumRadii == 5

NumStartAngles == 2

NumEndAngles == 11

NumCornerRadii == 12

RadiusValues ==
    <<0, e, 10 * Scale, 5 * Scale, Scale \div 2, 2 * Scale>>

StartAngleValues == <<0, 5236, 0 - 15708>>

EndAngleValues ==
    <<0, 1, 349, 1745, 15708, 31416, 47124, 62831, 62832, 125664, 5236, 20944>>

CornerRadiusValues ==
    <<Scalar(Num(0)),
      Scalar(Num(5 * Scale)),
      Scalar(Pct(20)),
      List(<<Num(Scale), Num(2 * Scale), Num(2000), Num(25000)>>),
      List(<<Num(3000)>>),
      List(<<Num(2000), Num(4000)>>),
      List(<<Num(1000), Num(2000), Num(3000)>>),
      Scalar(Num(3000)),
      Scalar(Num(e)),
      List(<<Pct(50), Pct(10), Num(4 * Scale), Pct(5)>>),
      List(<<>>),
      List(<<Num(Scale), Num(2000), Num(3000), Num(4000), Num(5000)>>),
      Scalar(Num(2 * Scale))>>

Take(xs, n) == {xs[i] : i \in 1..n}

Shapes ==
    [cx : {3 * Scale}, cy : {0 - 2 * Scale},
     startAngle : Take(StartAngleValues, NumStartAngles),
     endAngle : Take(EndAngleValues, NumEndAngles),
     clockwise : BOOLEAN,
     r : Take(RadiusValues, NumRadii),
     r0 : Take(RadiusValues, NumRadii),
     cornerRadius : Take(CornerRadiusValues, NumCornerRadii)]

---------------------------------------------------------------------------
(* One call of buildPath on a fresh sink *)

VARIABLES
    shape,          \* the descriptor passed to the call
    pc,             \* where the call is
    radius,         \* let radius
    innerRadius,    \* let innerRadius
    arc,            \* let arc
    cornerRadii,    \* <<icrStart, icrEnd, ocrStart, ocrEnd>> of line 173
    clamp,          \* ocrMax, icrMax, limitedOcrMax, limitedIcrMax, it
    cmds,           \* the commands the sink has received, in order
    calls           \* the kernel calls made so far, in order

vars == <<shape, pc, radius, innerRadius, arc, cornerRadii, clamp, cmds, calls>>

NoClamp ==
    [ocrMax |-> 0, icrMax |-> 0, limitedOcrMax |-> 0, limitedIcrMax |-> 0,
     intersectCalled |-> FALSE, it |-> <<>>]

Init ==
    /\ shape \in Shapes
    /\ pc = "enter"
    /\ radius = 0
    /\ innerRadius = 0
    /\ arc = 0
    /\ cornerRadii = [idx \in 1..4 |-> 0]
    /\ clamp = NoClamp
    /\ cmds = <<>>
    /\ calls = <<>>

\* Lines 135-173: the radii, the early return, the sweep, the corner radii.
Enter ==
    /\ pc = "enter"
    /\ LET rr == buildPathRadii(shape)
       IN  /\ radius' = rr.radius
           /\ innerRadius' = rr.innerRadius
           /\ IF rr.returns
              THEN /\ pc' = "returned"
                   /\ UNCHANGED <<arc, cornerRadii>>
              ELSE /\ pc' = "classify"
                   /\ arc' = buildPathArc(shape)
                   /\ cornerRadii' = buildPathCornerRadii(shape)
    /\ UNCHANGED <<shape, clamp, cmds, calls>>

\* Lines 176-178: the point.
Point ==
    /\ pc = "classify"
    /\ isPoint(radius)
    /\ cmds' = Append(cmds, MoveTo(shape.cx, shape.cy))
    /\ pc' = "close"
    /\ UNCHANGED <<shape, radius, innerRadius, arc, cornerRadii, clamp, calls>>

\* Circle with the sweep tested before the radius.
CircleBeforePoint ==
    /\ pc = "classify"
    /\ isCircle(arc)
    /\ cmds' = cmds \o circleCmds(shape, radius, innerRadius)
    /\ pc' = "close"
    /\ UNCHANGED <<shape, radius, innerRadius, arc, cornerRadii, clamp, calls>>

\* Lines 180-190: the circle or annulus.
Circle ==
    /\ pc = "classify"
    /\ ~isPoint(radius)
    /\ isCircle(arc)
    /\ cmds' = cmds \o circleCmds(shape, radius, innerRadius)
    /\ pc' = "close"
    /\ UNCHANGED <<shape, radius, innerRadius, arc, cornerRadii, clamp, calls>>

\* Lines 193-237: the sector's corner radii are clamped.
Clamp ==
    /\ pc = "classify"
    /\ ~isPoint(radius)
    /\ ~isCircle(arc)
    /\ clamp' = sectorClamp(shape, radius, innerRadius, arc, cornerRadii)
    /\ calls' = IF clamp'.intersectCalled
                THEN Append(calls, [fn |-> "intersect"])
                ELSE calls
    /\ pc' = "outer"
    /\ UNCHANGED <<shape, radius, innerRadius, arc, cornerRadii, cmds>>

\* Lines 239-271: the outer ring.
OuterRing ==
    /\ pc = "outer"
    /\ cmds' = cmds \o outerRingCmds(shape, radius, innerRadius, arc,
                                     cornerRadii[3], cornerRadii[4],
                                     clamp.ocrMax, clamp.limitedOcrMax)
    /\ calls' = calls \o outerRingCalls(radius, arc, cornerRadii[3],
                                        cornerRadii[4], clamp.limitedOcrMax)
    /\ pc' = "inner"
    /\ UNCHANGED <<shape, radius, innerRadius, arc, cornerRadii, clamp>>

\* Lines 273-303: the inner ring.
InnerRing ==
    /\ pc = "inner"
    /\ cmds' = cmds \o innerRingCmds(shape, radius, innerRadius, arc,
                                     cornerRadii[1], cornerRadii[2],
                                     clamp.icrMax, clamp.limitedIcrMax)
    /\ calls' = calls \o innerRingCalls(innerRadius, arc, cornerRadii[1],
                                        cornerRadii[2], clamp.limitedIcrMax)
    /\ pc' = "close"
    /\ UNCHANGED <<shape, radius, innerRadius, arc, cornerRadii, clamp>>

\* Line 306.
ClosePath ==
    /\ pc = "close"
    /\ cmds' = Append(cmds, ClosePathCmd)
    /\ pc' = "done"
    /\ UNCHANGED <<shape, radius, innerRadius, arc, cornerRadii, clamp, calls>>

Next == Enter \/ Point \/ Circle \/ Clamp \/ OuterRing \/ InnerRing \/ ClosePath

Spec == Init /\ [][Next]_vars

\* The call is over: it returned at line 142 or after line 306.
Finished == pc \in {"returned", "done"}

---------------------------------------------------------------------------
(* Properties *)

\* The larger and the smaller of the two radii of the descriptor.
OuterOf(s) == IF s.r > s.r0 THEN s.r ELSE s.r0

InnerOf(s) == IF s.r > s.r0 THEN s.r0 ELSE s.r

\* The descriptor with r and r0 exchanged.
SwapRadii(s) == [s EXCEPT !.r = s.r0, !.r0 = s.r]

\* An entry of a cornerRadius is a percentage string.
HasPercent(cr) ==
    IF cr.arr THEN \E i \in 1..Len(cr.val) : cr.val[i].pct ELSE cr.val.pct

PointOutput == <<MoveTo(shape.cx, shape.cy), ClosePathCmd>>

\* The arcs of the sink that are not centred on the sector centre: the
\* fillets and merged fillets.
FilletArcs ==
    {i \in 1..Len(cmds) :
        /\ cmds[i].op = "arc"
        /\ (cmds[i].cx # shape.cx \/ cmds[i].cy # shape.cy)}

\* C1: a finished call has emitted exactly the command sequence that the
\* call on the same descriptor with r and r0 exchanged emits.
C1_InversionSafe == Finished => cmds = buildPath(SwapRadii(shape))

\* C2 as stated: whenever the larger radius is at most epsilon, r = r0 = 0
\* included, a finished call has emitted exactly MoveTo(cx, cy), ClosePath.
C2_PointIncludingZero ==
    (Finished /\ OuterOf(shape) <= e) => cmds = PointOutput

\* C2 as amended: whenever the larger radius is at most epsilon and above
\* zero, a finished call has emitted exactly MoveTo(cx, cy), ClosePath, for
\* any angles and any cornerRadius; with r = r0 = 0 it has emitted nothing.
C2_PointCase ==
    /\ (Finished /\ OuterOf(shape) <= e /\ OuterOf(shape) > 0)
          => cmds = PointOutput
    /\ (Finished /\ OuterOf(shape) = 0) => cmds = <<>>

C2_Witness ==
    /\ pc = "done"
    /\ OuterOf(shape) = e
    /\ shape.startAngle # shape.endAngle
    /\ shape.cornerRadius = Scalar(Num(5 * Scale))
    /\ cmds = PointOutput

\* C3 as stated: a finished call has emitted no command at all exactly when
\* r and r0 are both at most epsilon.
C3_EmptyUpToEpsilon ==
    Finished => (cmds = <<>> <=> (shape.r <= e /\ shape.r0 <= e))

\* C3 as amended: a finished call has emitted no command at all exactly when
\* r and r0 are both at most zero.
C3_EmptyOutput ==
    Finished => (cmds = <<>> <=> (shape.r <= 0 /\ shape.r0 <= 0))

C3_Witness ==
    /\ pc = "returned"
    /\ shape.r = 0
    /\ shape.r0 = 0
    /\ cmds = <<>>

\* C4: every arc that is not centred on the sector centre (a fillet or a
\* merged fillet) has a radius of at most |r - r0| / 2.
C4_CornerRadiusClamp ==
    \A i \in FilletArcs : 2 * cmds[i].radius <= mathAbs(shape.r - shape.r0)

\* A corner radius above the half ring width was requested, and a fillet of
\* exactly the half ring width has been emitted.
C4_Witness ==
    /\ pc = "done"
    /\ cornerRadii[3] > halfRdOf(radius, innerRadius)
    /\ \E i \in FilletArcs : cmds[i].radius = halfRdOf(radius, innerRadius)


\* The call took the general-sector branch and has clamped the corner radii.
InSector ==
    /\ pc \in {"outer", "inner", "close", "done"}
    /\ radius > e
    /\ ~(arc > PI2 - e)

\* The fillet arcs of the outer ring (emitted before the LineTo that leads to
\* the inner ring) and those of the inner ring.
OuterFilletArcs ==
    {i \in FilletArcs : \A j \in 1..(i - 1) : cmds[j].op # "lineTo"}

InnerFilletArcs == FilletArcs \ OuterFilletArcs

\* The arcs centred on the sector centre.
CentredArcs ==
    {i \in 1..Len(cmds) :
        /\ cmds[i].op = "arc"
        /\ cmds[i].cx = shape.cx
        /\ cmds[i].cy = shape.cy}

\* The determinant of the directions of the start edge and the end edge
\* (zero when the edges are parallel), and the point where the two edges
\* cross when it is not zero.
EdgeDeterminant ==
    LET dx10 == Xirs(shape, innerRadius) - Xrs(shape, radius)
        dy10 == Yirs(shape, innerRadius) - Yrs(shape, radius)
        dx32 == Xire(shape, innerRadius) - Xre(shape, radius)
        dy32 == Yire(shape, innerRadius) - Yre(shape, radius)
    IN  Mul(dy32, dx10) - Mul(dx32, dy10)

EdgeCross ==
    LET x0   == Xrs(shape, radius)
        y0   == Yrs(shape, radius)
        x2   == Xre(shape, radius)
        y2   == Yre(shape, radius)
        dx10 == Xirs(shape, innerRadius) - x0
        dy10 == Yirs(shape, innerRadius) - y0
        dx32 == Xire(shape, innerRadius) - x2
        dy32 == Yire(shape, innerRadius) - y2
        t    == Div(Mul(dx32, y0 - y2) - Mul(dy32, x0 - x2), EdgeDeterminant)
    IN  <<x0 + Mul(t, dx10), y0 + Mul(t, dy10)>>

\* Every outer fillet arc has a radius of at most (R - b) / (a + 1) and every
\* inner fillet arc one of at most (R0 - b) / (a - 1), a and b taken for the
\* crossing point it.
WithinTangentBounds(it) ==
    LET ab == tangentFactors(shape, radius, it)
    IN  /\ \A i \in OuterFilletArcs :
              cmds[i].radius <= Div(radius - ab.b, ab.a + Scale)
        /\ \A i \in InnerFilletArcs :
              cmds[i].radius <= Div(innerRadius - ab.b, ab.a - Scale)

\* C5 as stated: in a general sector with a sweep in (epsilon, pi), a
\* requested corner radius above epsilon and start and end edges that are not
\* parallel, the fillet radii used are within the tangent bounds.
C5_TangentClampNotParallel ==
    (/\ InSector
     /\ arc > e
     /\ arc < PI
     /\ \E i \in 1..4 : cornerRadii[i] > e
     /\ EdgeDeterminant # 0) => WithinTangentBounds(EdgeCross)

\* C5 as amended: in a general sector with a sweep in (epsilon, pi) for
\* which intersect was called (a clamped corner radius is above epsilon) and
\* returned a point (the squared determinant is at least 1e-4), the fillet
\* radii used are within the tangent bounds taken at that point.
C5_TangentClamp ==
    (/\ InSector
     /\ arc > e
     /\ arc < PI
     /\ clamp.it # <<>>) => WithinTangentBounds(clamp.it)

\* Both rings have been drawn with fillets that the tangent bounds, not the
\* half ring width, limit.
C5_Witness ==
    /\ pc = "done"
    /\ arc > e
    /\ clamp.it # <<>>
    /\ clamp.limitedOcrMax < clamp.ocrMax
    /\ clamp.limitedIcrMax < clamp.icrMax
    /\ \E i \in OuterFilletArcs : cmds[i].radius = clamp.limitedOcrMax
    /\ \E i \in InnerFilletArcs : cmds[i].radius = clamp.limitedIcrMax

\* C6: in a general sector with a sweep above epsilon and
\* epsilon < limitedOcrMax < ocrMax, the outer ring is one MoveTo followed by
\* exactly one Arc, a fillet arc of radius limitedOcrMax, and no arc centred
\* on (cx, cy) with the outer radius is emitted.
C6_MergedOuterFillets ==
    (/\ InSector
     /\ pc # "outer"
     /\ arc > e
     /\ clamp.limitedOcrMax > e
     /\ clamp.limitedOcrMax < clamp.ocrMax)
    => /\ pc = "inner" => Len(cmds) = 2
       /\ cmds[1].op = "moveTo"
       /\ OuterFilletArcs = {2}
       /\ cmds[2].radius = clamp.limitedOcrMax
       /\ \A i \in CentredArcs : cmds[i].radius # radius
       /\ Len(cmds) >= 3 => cmds[3].op = "lineTo" \/ 3 \in CentredArcs

\* The example of the claim at a tenth of its size: sweep 10 degrees,
\* radius 10, cornerRadius 5.
C6_Witness ==
    /\ pc = "done"
    /\ shape.r = 10 * Scale
    /\ shape.r0 = 0
    /\ arc = 1745
    /\ shape.cornerRadius = Scalar(Num(5 * Scale))
    /\ clamp.limitedOcrMax > e
    /\ clamp.limitedOcrMax < clamp.ocrMax
    /\ Len(cmds) = 4
    /\ OuterFilletArcs = {2}

\* What the full-turn branch has to emit, from the descriptor alone.
FullTurnOutput ==
    LET po == calcCircleCenter(shape.cx, shape.cy, OuterOf(shape), shape.startAngle)
        pi == calcCircleCenter(shape.cx, shape.cy, InnerOf(shape), shape.endAngle)
    IN  <<MoveTo(po.x, po.y),
          Arc(shape.cx, shape.cy, OuterOf(shape), shape.startAngle,
              shape.endAngle, ~shape.clockwise)>>
        \o (IF InnerOf(shape) > e
            THEN <<MoveTo(pi.x, pi.y),
                   Arc(shape.cx, shape.cy, InnerOf(shape), shape.endAngle,
                       shape.startAngle, shape.clockwise)>>
            ELSE <<>>)
        \o <<ClosePathCmd>>

\* C7 as stated: with an outer radius above epsilon and a sweep of at least
\* 2 pi - epsilon, a finished call has emitted exactly the full-turn output.
C7_FullTurnAtLeast ==
    (Finished /\ OuterOf(shape) > e /\ arc >= PI2 - e) => cmds = FullTurnOutput

\* C7 as amended: with an outer radius above epsilon and a sweep greater than
\* 2 pi - epsilon, a finished call has emitted exactly the full-turn output
\* (no LineTo, and nothing that depends on cornerRadius).
C7_FullTurn ==
    (Finished /\ OuterOf(shape) > e /\ arc > PI2 - e) => cmds = FullTurnOutput

C7_Witness ==
    /\ pc = "done"
    /\ arc > PI2 - e
    /\ InnerOf(shape) > e
    /\ shape.cornerRadius = Scalar(Num(5 * Scale))
    /\ Len(cmds) = 5
    /\ cmds = FullTurnOutput

\* What a sector of zero sweep has to emit, from the descriptor alone.
ZeroSweepOutput ==
    LET po == calcCircleCenter(shape.cx, shape.cy, OuterOf(shape), shape.startAngle)
        pi == calcCircleCenter(shape.cx, shape.cy, InnerOf(shape), shape.endAngle)
    IN  <<MoveTo(po.x, po.y), LineTo(pi.x, pi.y), ClosePathCmd>>

\* C8: with startAngle = endAngle, or a sweep of at most epsilon, and an outer
\* radius above epsilon, a finished call has emitted exactly MoveTo(outer
\* point at startAngle), LineTo(inner point at endAngle), ClosePath.
C8_ZeroSweep ==
    (/\ Finished
     /\ OuterOf(shape) > e
     /\ (shape.startAngle = shape.endAngle \/ arc <= e)) => cmds = ZeroSweepOutput

\* A sweep of exactly epsilon between different angles, with a hole and
\* corner radii requested.
C8_Witness ==
    /\ pc = "done"
    /\ shape.startAngle # shape.endAngle
    /\ arc = e
    /\ InnerOf(shape) > e
    /\ shape.cornerRadius = Scalar(Num(5 * Scale))
    /\ cmds = ZeroSweepOutput

\* C9: with cornerRadius = 0 every arc emitted is centred on (cx, cy) with the
\* outer or the inner radius, computeCornerTangents is never called, and a
\* call that has emitted anything ends its output with ClosePath.
C9_SharpCorners ==
    shape.cornerRadius = Scalar(Num(0))
    => /\ FilletArcs = {}
       /\ \A i \in CentredArcs :
             cmds[i].radius \in {OuterOf(shape), InnerOf(shape)}
       /\ \A i \in 1..Len(calls) : calls[i].fn # "computeCornerTangents"
       /\ pc = "done" => cmds[Len(cmds)] = ClosePathCmd
       /\ (Finished /\ cmds # <<>>) => cmds[Len(cmds)] = ClosePathCmd

\* An annular sector with sharp corners: two arcs, both about the centre.
C9_Witness ==
    /\ pc = "done"
    /\ shape.cornerRadius = Scalar(Num(0))
    /\ InnerOf(shape) > e
    /\ Len(cmds) = 4
    /\ CentredArcs = {2, 3}
    /\ cmds[2].radius = OuterOf(shape)
    /\ cmds[3].radius = InnerOf(shape)

\* The cornerRadius is a list whose length the shorthand table does not list.
InvalidShape(cr) == cr.arr /\ Len(cr.val) \notin 1..4

\* The shorthand table, for numeric entries.
ShorthandTable(cr) ==
    IF ~cr.arr THEN <<cr.val.v, cr.val.v, cr.val.v, cr.val.v>>
    ELSE IF Len(cr.val) = 1 THEN <<cr.val[1].v, cr.val[1].v, 0, 0>>
    ELSE IF Len(cr.val) = 2
    THEN <<cr.val[1].v, cr.val[1].v, cr.val[2].v, cr.val[2].v>>
    ELSE IF Len(cr.val) = 3
    THEN <<cr.val[1].v, cr.val[2].v, cr.val[3].v, cr.val[3].v>>
    ELSE <<cr.val[1].v, cr.val[2].v, cr.val[3].v, cr.val[4].v>>

\* The computeCornerTangents calls made so far.
TangentCalls == SelectSeq(calls, LAMBDA c : c.fn = "computeCornerTangents")

TangentCall(rad, cr) == [fn |-> "computeCornerTangents", radius |-> rad, cr |-> cr]

\* C10: for a scalar or a list of one to four entries, all numeric, the four
\* corner radii are the shorthand table's,
\* in the order (inner-start, inner-end, outer-start, outer-end): when no
\* clamp changes them, the outer fillets are built with the third and fourth
\* and the inner fillets with the second and first.
C10_ShorthandExpansion ==
    (/\ pc \notin {"enter", "returned"}
     /\ ~InvalidShape(shape.cornerRadius)
     /\ ~HasPercent(shape.cornerRadius))
    => LET t == ShorthandTable(shape.cornerRadius)
       IN  /\ cornerRadii = t
           /\ (/\ pc = "done"
               /\ InSector
               /\ arc >= PI
               /\ innerRadius > e
               /\ \A i \in 1..4 : t[i] > e /\ t[i] <= halfRdOf(radius, innerRadius))
              => TangentCalls = <<TangentCall(radius, t[3]),
                                  TangentCall(radius, t[4]),
                                  TangentCall(innerRadius, 0 - t[2]),
                                  TangentCall(innerRadius, 0 - t[1])>>

\* A list of four different entries, none clamped, with all four fillets built.
C10_Witness ==
    /\ pc = "done"
    /\ shape.cornerRadius = List(<<Num(Scale), Num(2 * Scale), Num(2000), Num(25000)>>)
    /\ cornerRadii = <<Scale, 2 * Scale, 2000, 25000>>
    /\ arc >= PI
    /\ TangentCalls = <<TangentCall(radius, 2000), TangentCall(radius, 25000),
                        TangentCall(innerRadius, 0 - 2 * Scale),
                        TangentCall(innerRadius, 0 - Scale)>>


\* The entries of the shorthand table, percentages not yet resolved.
ShorthandEntries(cr) ==
    IF ~cr.arr THEN <<cr.val, cr.val, cr.val, cr.val>>
    ELSE IF Len(cr.val) = 1 THEN <<cr.val[1], cr.val[1], Num(0), Num(0)>>
    ELSE IF Len(cr.val) = 2 THEN <<cr.val[1], cr.val[1], cr.val[2], cr.val[2]>>
    ELSE IF Len(cr.val) = 3 THEN <<cr.val[1], cr.val[2], cr.val[3], cr.val[3]>>
    ELSE <<cr.val[1], cr.val[2], cr.val[3], cr.val[4]>>

\* The entry resolved against base: p / 100 * base for "p%", the number
\* itself otherwise.
ResolvedAgainst(entry, base) ==
    IF entry.pct THEN Mul(entry.v * (Scale \div 100), base) ELSE entry.v

\* C11: once the corner radii are computed, the two inner slots hold their
\* entries resolved against the inner radius of the sector and the two outer
\* slots theirs resolved against the outer radius of the sector.
C11_PercentOfSectorRadii ==
    pc \notin {"enter", "returned"}
    => \A idx \in 1..4 :
          cornerRadii[idx] =
              ResolvedAgainst(ShorthandEntries(shape.cornerRadius)[idx],
                              IF idx <= 2 THEN innerRadius ELSE radius)


\* C12: with a list of length 0 or of length above 4 the corner radii are
\* [first, first, 0, 0] (first being undefined for the empty list), the outer
\* corners are sharp (no outer fillet arc; a sector of non-zero sweep has the
\* plain outer arc), and a call that reaches line 306 has a path ending with
\* ClosePath.
C12_InvalidShapes ==
    InvalidShape(shape.cornerRadius)
    => /\ pc \notin {"enter", "returned"}
          => LET first == IF shape.cornerRadius.val = <<>> THEN NaN
                          ELSE ResolvedAgainst(shape.cornerRadius.val[1], shape.r0)
             IN  cornerRadii = <<first, first, 0, 0>>
       /\ OuterFilletArcs = {}
       /\ (InSector /\ arc > e /\ pc # "outer")
          => cmds[2] = Arc(shape.cx, shape.cy, radius, shape.startAngle,
                           shape.endAngle, ~shape.clockwise)
       /\ pc = "done" => cmds[Len(cmds)] = ClosePathCmd

\* The empty list on an annular sector: both rings plain, path closed.
C12_Witness ==
    /\ pc = "done"
    /\ shape.cornerRadius = List(<<>>)
    /\ InSector
    /\ arc > e
    /\ innerRadius > e
    /\ cornerRadii = <<NaN, NaN, 0, 0>>
    /\ Len(cmds) = 4
    /\ FilletArcs = {}
    /\ cmds[4] = ClosePathCmd


\* The arc commands of the sink.
ArcCmds == {i \in 1..Len(cmds) : cmds[i].op = "arc"}

\* How many commands the outer ring (or the point, or the outer circle) takes:
\* the collapsed sector and the point take the MoveTo alone, the merged outer
\* ring MoveTo and one arc, the outer ring with two fillets MoveTo and three
\* arcs, the plain outer ring and the outer circle MoveTo and one arc.
OuterRingLen ==
    IF ~(radius > e) THEN 1
    ELSE IF arc > PI2 - e THEN 2
    ELSE IF ~(arc > e) THEN 1
    ELSE IF clamp.limitedOcrMax > e /\ ~(clamp.limitedOcrMax < clamp.ocrMax) THEN 4
    ELSE 2

\* C13 as stated, for the fillet arcs of the ring that is drawn in the
\* opposite sense: a call that has emitted fillet arcs on the inner ring has
\* emitted one of them with anticlockwise = clockwise.
C13_InnerFilletUnNegated ==
    InnerFilletArcs # {}
    => \E i \in InnerFilletArcs : cmds[i].anticlockwise = shape.clockwise

\* C13 as amended: every arc of the outer ring and every fillet arc, of the
\* outer or of the inner ring, merged or not, is passed
\* anticlockwise = !clockwise; the arcs about (cx, cy) that come after the
\* outer ring (the plain inner arc, the inner arc between fillets, the hole
\* of the annulus) are passed anticlockwise = clockwise.
C13_ArcWinding ==
    pc \in {"inner", "close", "done"}
    => \A i \in ArcCmds :
          cmds[i].anticlockwise =
              IF i \in CentredArcs /\ i > OuterRingLen
              THEN shape.clockwise
              ELSE ~shape.clockwise

\* An annular sector with four separate fillets: nine commands, the inner
\* main arc the only one with the un-negated flag.
C13_Witness ==
    /\ pc = "done"
    /\ Len(cmds) = 9
    /\ OuterFilletArcs = {2, 4}
    /\ InnerFilletArcs = {6, 8}
    /\ CentredArcs = {3, 7}
    /\ cmds[3].anticlockwise = ~shape.clockwise
    /\ cmds[7].anticlockwise = shape.clockwise
    /\ \A i \in {2, 4, 6, 8} : cmds[i].anticlockwise = ~shape.clockwise


\* The commands of the sink with the given op.
CmdsOf(op) == {i \in 1..Len(cmds) : cmds[i].op = op}

\* How many steps the call has left at most.
StepsLeft ==
    CASE pc = "enter" -> 5
      [] pc = "classify" -> 4
      [] pc = "outer" -> 3
      [] pc = "inner" -> 2
      [] pc = "close" -> 1
      [] OTHER -> 0

\* The sink never holds more than 9 commands and no ClosePath before the
\* call is over; the non-empty output of a finished call starts with MoveTo,
\* has one ClosePath, its last command, at most one LineTo, and a second
\* MoveTo only for the full circle with an inner radius above epsilon.
WellFormedOutput ==
    /\ Len(cmds) <= 9
    /\ ~Finished => CmdsOf("closePath") = {}
    /\ (Finished /\ cmds # <<>>)
       => /\ cmds[1].op = "moveTo"
          /\ CmdsOf("closePath") = {Len(cmds)}
          /\ Cardinality(CmdsOf("lineTo")) <= 1
          /\ Cardinality(CmdsOf("moveTo")) <= 2
          /\ Cardinality(CmdsOf("moveTo")) = 2
             => radius > e /\ arc > PI2 - e /\ innerRadius > e

\* C14: every step of a call leaves it fewer steps to take, at most 5 in
\* all, the call being over exactly when none is left; and the output is
\* well formed and bounded.
C14_BoundedOutput ==
    /\ [](WellFormedOutput /\ (Finished <=> StepsLeft = 0))
    /\ [][StepsLeft' < StepsLeft]_vars

\* The longest output: both rings with two fillets each.
C14_Witness ==
    /\ pc = "done"
    /\ Len(cmds) = 9
    /\ cmds[1].op = "moveTo"
    /\ CmdsOf("lineTo") = {5}
    /\ CmdsOf("closePath") = {9}
    /\ Len(calls) = 4


---------------------------------------------------------------------------
(* Two calls of buildPath interleaved command by command.  The variables are
   those of one call, each now a function of the call (1 or 2): shape[c] holds
   the arguments of call c, the sink under ctx and the descriptor under
   shape; pc[c] is where call c is (at) and how many commands of that part
   of the code it has sent (sent); cmds is a function of the sink. *)

Calls == {1, 2}

\* How many entries of ConcDescriptors a call may use.
NumConcShapes == 4

ConcDescriptors ==
    <<[cx |-> 3 * Scale, cy |-> 0 - 2 * Scale, startAngle |-> 0,
       endAngle |-> 15708, clockwise |-> TRUE, r |-> 10 * Scale, r0 |-> 0,
       cornerRadius |-> List(<<Num(3000)>>)],
      [cx |-> 3 * Scale, cy |-> 0 - 2 * Scale, startAngle |-> 0,
       endAngle |-> 62832, clockwise |-> TRUE, r |-> 5 * Scale,
       r0 |-> 10 * Scale,
       cornerRadius |-> List(<<Num(Scale), Num(2 * Scale), Num(2000), Num(25000)>>)],
      [cx |-> 3 * Scale, cy |-> 0 - 2 * Scale, startAngle |-> 0,
       endAngle |-> 1745, clockwise |-> TRUE, r |-> 10 * Scale,
       r0 |-> 5 * Scale, cornerRadius |-> Scalar(Num(5 * Scale))],
      [cx |-> 3 * Scale, cy |-> 0 - 2 * Scale, startAngle |-> 0,
       endAngle |-> 15708, clockwise |-> FALSE, r |-> e, r0 |-> 0,
       cornerRadius |-> Scalar(Num(0))],
      [cx |-> 3 * Scale, cy |-> 0 - 2 * Scale, startAngle |-> 0,
       endAngle |-> 15708, clockwise |-> FALSE, r |-> 0, r0 |-> 0,
       cornerRadius |-> List(<<Num(2000), Num(4000)>>)]>>

\* Call 1 draws into sink 1, call 2 into sink 2 or into sink 1 as well.
ConcArgs ==
    {a \in [Calls -> [ctx : Calls, shape : Take(ConcDescriptors, NumConcShapes)]] :
        a[1].ctx = 1}

\* The commands that the part of the code call c is in sends to the sink.
PhaseCmds(c) ==
    CASE pc[c].at = "point" -> <<MoveTo(shape[c].shape.cx, shape[c].shape.cy)>>
      [] pc[c].at = "circle" ->
            circleCmds(shape[c].shape, radius[c], innerRadius[c])
      [] pc[c].at = "outer" ->
            outerRingCmds(shape[c].shape, radius[c], innerRadius[c], arc[c],
                          cornerRadii[c][3], cornerRadii[c][4],
                          clamp[c].ocrMax, clamp[c].limitedOcrMax)
      [] pc[c].at = "inner" ->
            innerRingCmds(shape[c].shape, radius[c], innerRadius[c], arc[c],
                          cornerRadii[c][1], cornerRadii[c][2],
                          clamp[c].icrMax, clamp[c].limitedIcrMax)
      [] pc[c].at = "close" -> <<ClosePathCmd>>
      [] OTHER -> <<>>

\* The part of the code that follows the one call c is in.
PhaseAfter(c) ==
    CASE pc[c].at = "outer" -> "inner"
      [] pc[c].at = "close" -> "done"
      [] OTHER -> "close"

ConcInit ==
    /\ shape \in ConcArgs
    /\ pc = [c \in Calls |-> [at |-> "enter", sent |-> 0]]
    /\ radius = [c \in Calls |-> 0]
    /\ innerRadius = [c \in Calls |-> 0]
    /\ arc = [c \in Calls |-> 0]
    /\ cornerRadii = [c \in Calls |-> [idx \in 1..4 |-> 0]]
    /\ clamp = [c \in Calls |-> NoClamp]
    /\ cmds = [k \in Calls |-> <<>>]
    /\ calls = [c \in Calls |-> <<>>]

\* Lines 135-173 of call c.
CallEnter(c) ==
    /\ pc[c].at = "enter"
    /\ LET rr == buildPathRadii(shape[c].shape)
       IN  /\ radius' = [radius EXCEPT ![c] = rr.radius]
           /\ innerRadius' = [innerRadius EXCEPT ![c] = rr.innerRadius]
           /\ IF rr.returns
              THEN /\ pc' = [pc EXCEPT ![c].at = "returned"]
                   /\ UNCHANGED <<arc, cornerRadii>>
              ELSE /\ pc' = [pc EXCEPT ![c].at = "classify"]
                   /\ arc' = [arc EXCEPT ![c] = buildPathArc(shape[c].shape)]
                   /\ cornerRadii' =
                          [cornerRadii EXCEPT ![c] = buildPathCornerRadii(shape[c].shape)]
    /\ UNCHANGED <<shape, clamp, cmds, calls>>

\* Line 176 of call c: the point branch is taken.
CallPoint(c) ==
    /\ pc[c].at = "classify"
    /\ isPoint(radius[c])
    /\ pc' = [pc EXCEPT ![c].at = "point"]
    /\ UNCHANGED <<shape, radius, innerRadius, arc, cornerRadii, clamp, cmds, calls>>

\* Line 180 of call c: the circle branch is taken.
CallCircle(c) ==
    /\ pc[c].at = "classify"
    /\ ~isPoint(radius[c])
    /\ isCircle(arc[c])
    /\ pc' = [pc EXCEPT ![c].at = "circle"]
    /\ UNCHANGED <<shape, radius, innerRadius, arc, cornerRadii, clamp, cmds, calls>>

\* Lines 193-248 of call c: the clamp and the outer fillets, up to the first
\* command of the outer ring.
CallClamp(c) ==
    /\ pc[c].at = "classify"
    /\ ~isPoint(radius[c])
    /\ ~isCircle(arc[c])
    /\ clamp' = [clamp EXCEPT ![c] =
                    sectorClamp(shape[c].shape, radius[c], innerRadius[c],
                                arc[c], cornerRadii[c])]
    /\ calls' = [calls EXCEPT ![c] =
                    (IF clamp'[c].intersectCalled
                     THEN <<[fn |-> "intersect"]>> ELSE <<>>)
                    \o outerRingCalls(radius[c], arc[c], cornerRadii[c][3],
                                      cornerRadii[c][4], clamp'[c].limitedOcrMax)]
    /\ pc' = [pc EXCEPT ![c].at = "outer"]
    /\ UNCHANGED <<shape, radius, innerRadius, arc, cornerRadii, cmds>>

\* CallEmit with every call sending to sink 1.
CallEmitFirstSink(c) ==
    /\ pc[c].sent < Len(PhaseCmds(c))
    /\ cmds' = [cmds EXCEPT ![1] = Append(@, PhaseCmds(c)[pc[c].sent + 1])]
    /\ pc' = [pc EXCEPT ![c].sent = @ + 1]
    /\ UNCHANGED <<shape, radius, innerRadius, arc, cornerRadii, clamp, calls>>

\* One ctx.moveTo, ctx.arc, ctx.lineTo or ctx.closePath of call c.
CallEmit(c) ==
    /\ pc[c].sent < Len(PhaseCmds(c))
    /\ cmds' = [cmds EXCEPT ![shape[c].ctx] =
                   Append(@, PhaseCmds(c)[pc[c].sent + 1])]
    /\ pc' = [pc EXCEPT ![c].sent = @ + 1]
    /\ UNCHANGED <<shape, radius, innerRadius, arc, cornerRadii, clamp, calls>>

\* Call c goes on to the next part of the code: from the outer ring to the
\* inner ring (lines 274-282), from a branch to line 306, from line 306 out.
CallAdvance(c) ==
    /\ pc[c].at \in {"point", "circle", "outer", "inner", "close"}
    /\ pc[c].sent = Len(PhaseCmds(c))
    /\ pc' = [pc EXCEPT ![c] = [at |-> PhaseAfter(c), sent |-> 0]]
    /\ calls' = [calls EXCEPT ![c] =
                    IF pc[c].at = "outer"
                    THEN @ \o innerRingCalls(innerRadius[c], arc[c],
                                             cornerRadii[c][1], cornerRadii[c][2],
                                             clamp[c].limitedIcrMax)
                    ELSE @]
    /\ UNCHANGED <<shape, radius, innerRadius, arc, cornerRadii, clamp, cmds>>

ConcNext ==
    \E c \in Calls :
        \/ CallEnter(c)
        \/ CallPoint(c)
        \/ CallCircle(c)
        \/ CallClamp(c)
        \/ CallEmit(c)
        \/ CallAdvance(c)

ConcSpec == ConcInit /\ [][ConcNext]_vars


\* No other call draws into the sink of call c.
OwnSink(c) == \A d \in Calls \ {c} : shape[d].ctx # shape[c].ctx

CallOver(c) == pc[c].at \in {"returned", "done"}

\* What the sink of call c receives when the call runs alone.
AloneOutput(c) == buildPath(shape[c].shape)

\* How many commands call c has sent so far, out being what it sends when it
\* runs alone.
SentCount(c, out) ==
    CASE pc[c].at \in {"enter", "classify", "returned"} -> 0
      [] pc[c].at \in {"point", "circle", "outer"} -> pc[c].sent
      [] pc[c].at = "inner" -> Len(out) - 1 - Len(PhaseCmds(c)) + pc[c].sent
      [] pc[c].at = "close" -> Len(out) - 1 + pc[c].sent
      [] OTHER -> Len(out)

IsPrefix(x, y) == Len(x) <= Len(y) /\ x = SubSeq(y, 1, Len(x))

RECURSIVE MergesUpTo(_, _, _, _, _)
\* The first i + j commands of z are the first i of x and the first j of y,
\* each in their own order.
MergesUpTo(z, x, y, i, j) ==
    IF i = 0 /\ j = 0
    THEN TRUE
    ELSE \/ i > 0 /\ x[i] = z[i + j] /\ MergesUpTo(z, x, y, i - 1, j)
         \/ j > 0 /\ y[j] = z[i + j] /\ MergesUpTo(z, x, y, i, j - 1)

\* What holds of the sinks when call 1 alone sends o[1] and has sent n[1]
\* commands, and likewise call 2: a call with a sink of its own has sent it
\* the first commands of what it sends alone, all of them once the call is
\* over; a sink the two calls share holds what each has sent so far, each
\* call's commands in their own order.
SinksHold(o, n) ==
    \A c \in Calls :
        IF OwnSink(c)
        THEN /\ IsPrefix(cmds[shape[c].ctx], o[c])
             /\ Len(cmds[shape[c].ctx]) = n[c]
             /\ CallOver(c) => cmds[shape[c].ctx] = o[c]
        ELSE /\ Len(cmds[shape[c].ctx]) = n[1] + n[2]
             /\ MergesUpTo(cmds[shape[c].ctx], o[1], o[2], n[1], n[2])

SinksAsAlone ==
    \A o \in {<<AloneOutput(1), AloneOutput(2)>>} :
        \A n \in {<<SentCount(1, o[1]), SentCount(2, o[2])>>} : SinksHold(o, n)

\* A step changes no argument of either call and, of a call that does not
\* take it, neither a local nor its own sink.
StepIsLocal ==
    /\ shape' = shape
    /\ \A c \in Calls :
          pc'[c] = pc[c]
          => /\ radius'[c] = radius[c]
             /\ innerRadius'[c] = innerRadius[c]
             /\ arc'[c] = arc[c]
             /\ cornerRadii'[c] = cornerRadii[c]
             /\ clamp'[c] = clamp[c]
             /\ calls'[c] = calls[c]
             /\ OwnSink(c) => cmds'[shape[c].ctx] = cmds[shape[c].ctx]

\* C15: with two calls interleaved command by command, a call that has its
\* own sink sends it exactly what it sends when it runs alone, no step
\* changes a descriptor or anything of the call that does not take it, and
\* commands of the two calls are found in one sink only when they share it.
C15_ConcurrentCalls == []SinksAsAlone /\ [][StepIsLocal]_vars

\* Both calls under way on sinks of their own, each with a part of its
\* output sent, the first with a cornerRadius list.
C15_Witness ==
    /\ OwnSink(1)
    /\ shape[1].shape.cornerRadius.arr
    /\ shape[1].shape # shape[2].shape
    /\ \A c \in Calls :
          /\ ~CallOver(c)
          /\ cmds[shape[c].ctx] # <<>>
          /\ Len(cmds[shape[c].ctx]) < Len(AloneOutput(c)) - 1
          /\ IsPrefix(cmds[shape[c].ctx], AloneOutput(c))


\* The step after the classification took the point branch: the sink has the
\* MoveTo to the centre and nothing else, and no kernel function was called.
PointStep ==
    /\ pc' = "close"
    /\ cmds' = <<MoveTo(shape.cx, shape.cy)>>
    /\ calls' = <<>>
    /\ clamp' = NoClamp

\* It took the circle branch: the sink has the outer circle, and the hole when
\* the inner radius is above epsilon, and no kernel function was called.
CircleStep ==
    /\ pc' = "close"
    /\ cmds' \o <<ClosePathCmd>> = FullTurnOutput
    /\ calls' = <<>>
    /\ clamp' = NoClamp

\* It took the sector branch: nothing is drawn yet, the corner radii are
\* clamped.
SectorStep ==
    /\ pc' = "outer"
    /\ cmds' = <<>>
    /\ clamp'.ocrMax = mathMax(mathMin(halfRdOf(radius, innerRadius), cornerRadii[3]),
                               mathMin(halfRdOf(radius, innerRadius), cornerRadii[4]))

\* The branch the priority order gives the call.
BranchByPriority ==
    IF ~(OuterOf(shape) > e) THEN PointStep
    ELSE IF arc > PI2 - e THEN CircleStep
    ELSE SectorStep

\* No two of the three branches are taken by one step.
OneBranch ==
    /\ ~(PointStep /\ CircleStep)
    /\ ~(PointStep /\ SectorStep)
    /\ ~(CircleStep /\ SectorStep)

\* C16: the step that follows the classification takes exactly one of the
\* three branches, the point branch whenever the outer radius is at most
\* epsilon (whatever the sweep), else the circle branch whenever the sweep is
\* above 2 pi - epsilon, else the sector branch; and in a call that took the
\* point or the circle branch neither intersect nor computeCornerTangents is
\* ever called.
C16_ClassificationPriority ==
    /\ [][pc = "classify" => BranchByPriority /\ OneBranch]_vars
    /\ []((pc \notin {"enter", "returned"}
           /\ (~(OuterOf(shape) > e) \/ arc > PI2 - e)) => calls = <<>>)
    /\ []((pc = "done" /\ ~(OuterOf(shape) > e)) => cmds = PointOutput)

\* An outer radius of epsilon with a sweep of a full turn and corner radii
\* requested: the point output.
C16_Witness ==
    /\ pc = "done"
    /\ OuterOf(shape) = e
    /\ arc > PI2 - e
    /\ shape.cornerRadius = Scalar(Num(5 * Scale))
    /\ cmds = PointOutput
    /\ calls = <<>>


\* The stricter bounds of lines 233 and 234 for the crossing point it.
OuterBound(it) ==
    Div(radius - tangentFactors(shape, radius, it).b,
        tangentFactors(shape, radius, it).a + Scale)

InnerBound(it) ==
    Div(innerRadius - tangentFactors(shape, radius, it).b,
        tangentFactors(shape, radius, it).a - Scale)

\* C17: in a general sector intersect is called exactly when a clamped corner
\* radius is above epsilon and the sweep is under pi; it returns nothing
\* exactly when the squared determinant of the two edge directions is under
\* 1e-4; the stricter clamp is applied exactly when it returns a point; and
\* whenever it is not applied limitedOcrMax = ocrMax, limitedIcrMax = icrMax
\* and neither ring is drawn as one merged arc.
C17_StricterClampGuard ==
    InSector
    => /\ clamp.intersectCalled
          <=> ((clamp.ocrMax > e \/ clamp.icrMax > e) /\ arc < PI)
       /\ clamp.intersectCalled
          => (clamp.it = <<>> <=> Mul(EdgeDeterminant, EdgeDeterminant) < e)
       /\ clamp.it # <<>>
          => /\ clamp.intersectCalled
             /\ clamp.it = EdgeCross
             /\ clamp.limitedOcrMax = mathMin(clamp.ocrMax, OuterBound(clamp.it))
             /\ clamp.limitedIcrMax = mathMin(clamp.icrMax, InnerBound(clamp.it))
       /\ clamp.it = <<>>
          => /\ clamp.limitedOcrMax = clamp.ocrMax
             /\ clamp.limitedIcrMax = clamp.icrMax
             /\ Cardinality(OuterFilletArcs) # 1
             /\ Cardinality(InnerFilletArcs) # 1

\* A narrow sector whose edges are not parallel but for which intersect
\* returns nothing: both outer fillets are drawn, unmerged.
C17_Witness ==
    /\ pc = "done"
    /\ InSector
    /\ arc > e
    /\ arc < PI
    /\ clamp.intersectCalled
    /\ clamp.it = <<>>
    /\ EdgeDeterminant # 0
    /\ clamp.limitedOcrMax = clamp.ocrMax
    /\ clamp.ocrMax > e
    /\ Cardinality(OuterFilletArcs) = 2


\* The intersection of the line through the outer-radius points at startAngle
\* and at endAngle with the line through the inner-radius points at
\* startAngle and at endAngle, nothing if intersect finds none.
ChordCross ==
    intersect(Xrs(shape, radius), Yrs(shape, radius),
              Xre(shape, radius), Yre(shape, radius),
              Xirs(shape, innerRadius), Yirs(shape, innerRadius),
              Xire(shape, innerRadius), Yire(shape, innerRadius))

\* The distance from the sector centre to the point it.
CentreDistance(it) == mathSqrt(Mul(it[1], it[1]) + Mul(it[2], it[2]))

\* The stricter clamp was applied with b the distance from the centre to it.
ClampedWith(it) ==
    /\ clamp.limitedOcrMax =
           mathMin(clamp.ocrMax,
                   Div(radius - CentreDistance(it),
                       tangentFactors(shape, radius, it).a + Scale))
    /\ clamp.limitedIcrMax =
           mathMin(clamp.icrMax,
                   Div(innerRadius - CentreDistance(it),
                       tangentFactors(shape, radius, it).a - Scale))

\* C18 as stated: when the stricter clamp calls intersect, the lines it
\* intersects are the one through the two outer-radius points and the one
\* through the two inner-radius points.
C18_ChordsIntersected ==
    (InSector /\ clamp.intersectCalled) => clamp.it = ChordCross

\* C18 as amended: when the stricter clamp calls intersect, the lines it
\* intersects are the start edge, through the outer-radius and the
\* inner-radius point at startAngle, and the end edge, through the
\* outer-radius and the inner-radius point at endAngle; when they cross, the
\* clamp is applied with b the distance from the sector centre to the
\* crossing point.
C18_EdgesIntersected ==
    (InSector /\ clamp.intersectCalled)
    => /\ clamp.it = IF Mul(EdgeDeterminant, EdgeDeterminant) < e
                     THEN <<>> ELSE EdgeCross
       /\ clamp.it # <<>> => ClampedWith(clamp.it)

\* The edges cross, the two chords do not, and the clamp binds.
C18_Witness ==
    /\ pc = "done"
    /\ InSector
    /\ clamp.it # <<>>
    /\ clamp.it = EdgeCross
    /\ ChordCross = <<>>
    /\ innerRadius > e
    /\ clamp.limitedOcrMax < clamp.ocrMax


\* The commands of the outer ring, once it is drawn.
OuterRingOutput == SubSeq(cmds, 1, OuterRingLen)

\* The distance between two points.
Distance(x0, y0, x1, y1) ==
    IF mathAbs(x1 - x0) <= 3 * Scale /\ mathAbs(y1 - y0) <= 3 * Scale
    THEN ISqrt((x1 - x0) * (x1 - x0) + (y1 - y0) * (y1 - y0))
    ELSE mathSqrt(Mul(x1 - x0, x1 - x0) + Mul(y1 - y0, y1 - y0))

\* How far the point (x, y) is from the line of the edge at the angle a, and
\* how far from the circle of radius rad about (x0, y0).
OffEdge(x, y, a) ==
    mathAbs(Mul(mathSin(a), x - shape.cx) - Mul(mathCos(a), y - shape.cy))

OffCircle(x, y, x0, y0, rad) == mathAbs(Distance(x, y, x0, y0) - rad)

\* The rounding the fixed-point kernel leaves on a point of the path.
Tolerance == 50 * e

\* The outer ring without fillets.
PlainOuterRing ==
    <<MoveTo(shape.cx + Mul(radius, mathCos(shape.startAngle)),
             shape.cy + Mul(radius, mathSin(shape.startAngle))),
      Arc(shape.cx, shape.cy, radius, shape.startAngle, shape.endAngle,
          ~shape.clockwise)>>

\* The outer ring with two fillets: MoveTo to the point where the start fillet
\* touches the start edge, the start fillet, the arc about the centre, the end
\* fillet, the end fillet ending where it touches the end edge.
FilletedOuterRing(ring, crStart, crEnd) ==
    /\ Len(ring) = 4
    /\ ring[1].op = "moveTo"
    /\ \A i \in 2..4 : ring[i].op = "arc"
    /\ ring[2].radius = crStart
    /\ ring[3].cx = shape.cx /\ ring[3].cy = shape.cy /\ ring[3].radius = radius
    /\ ring[4].radius = crEnd
    /\ OffEdge(ring[1].x, ring[1].y, shape.startAngle) <= Tolerance
    /\ OffCircle(ring[1].x, ring[1].y, ring[2].cx, ring[2].cy, crStart) <= Tolerance
    /\ OffCircle(ring[2].cx, ring[2].cy, shape.cx, shape.cy, radius - crStart) <= Tolerance
    /\ OffCircle(ring[4].cx, ring[4].cy, shape.cx, shape.cy, radius - crEnd) <= Tolerance
    /\ mathAbs(OffEdge(ring[2].cx, ring[2].cy, shape.startAngle) - crStart) <= Tolerance
    /\ mathAbs(OffEdge(ring[4].cx, ring[4].cy, shape.endAngle) - crEnd) <= Tolerance

\* The computeCornerTangents calls made for the outer ring.
OuterTangentCalls == SelectSeq(TangentCalls, LAMBDA c : c.cr >= 0)

\* C19: in a general sector with a sweep above epsilon, once the outer ring is
\* drawn: with a limited outer bound of at most epsilon it is exactly MoveTo
\* (outer point at startAngle), Arc(cx, cy, outer radius, startAngle,
\* endAngle), with no computeCornerTangents call; with a bound above epsilon
\* that equals ocrMax it is exactly MoveTo(tangent point of the start fillet
\* on the start edge), Arc(start fillet, radius min(ocrStart, bound)),
\* Arc(cx, cy, outer radius), Arc(end fillet, radius min(ocrEnd, bound)),
\* after exactly two computeCornerTangents calls, for the start fillet and
\* for the end fillet in that order.
C19_OuterRingOrder ==
    (InSector /\ arc > e /\ pc # "outer")
    => IF ~(clamp.limitedOcrMax > e)
       THEN /\ OuterRingOutput = PlainOuterRing
            /\ OuterTangentCalls = <<>>
       ELSE clamp.limitedOcrMax = clamp.ocrMax
            => /\ FilletedOuterRing(OuterRingOutput,
                                    mathMin(cornerRadii[3], clamp.limitedOcrMax),
                                    mathMin(cornerRadii[4], clamp.limitedOcrMax))
               /\ OuterTangentCalls =
                      <<TangentCall(radius, mathMin(cornerRadii[3], clamp.limitedOcrMax)),
                        TangentCall(radius, mathMin(cornerRadii[4], clamp.limitedOcrMax))>>
               /\ pc = "inner" => TangentCalls = OuterTangentCalls

\* The outer ring after it is drawn with two fillets of different radii.
C19_Witness ==
    /\ pc = "inner"
    /\ InSector
    /\ arc > e
    /\ clamp.limitedOcrMax > e
    /\ clamp.limitedOcrMax = clamp.ocrMax
    /\ Len(cmds) = 4
    /\ cmds[2].radius = 2000
    /\ cmds[4].radius = 25000
    /\ OuterTangentCalls = <<TangentCall(radius, 2000), TangentCall(radius, 25000)>>


\* The commands of the inner ring, once it is drawn.
InnerRingOutput ==
    SubSeq(cmds, OuterRingLen + 1, IF pc = "done" THEN Len(cmds) - 1 ELSE Len(cmds))

\* The inner ring of a sector without a hole, and the inner ring without
\* fillets.
EdgeToInnerPoint ==
    <<LineTo(shape.cx + Mul(innerRadius, mathCos(shape.endAngle)),
             shape.cy + Mul(innerRadius, mathSin(shape.endAngle)))>>

PlainInnerRing ==
    <<Arc(shape.cx, shape.cy, innerRadius, shape.endAngle, shape.startAngle,
          shape.clockwise)>>

\* The inner ring with fillets starts with a LineTo to the point where the end
\* fillet touches the end edge, followed by the end fillet's arc, whose centre
\* is inside the inner circle's outside by its radius.
StartsAtEndFillet(ring, crEnd) ==
    /\ ring[1].op = "lineTo"
    /\ ring[2].op = "arc"
    /\ OffEdge(ring[1].x, ring[1].y, shape.endAngle) <= Tolerance
    /\ OffCircle(ring[1].x, ring[1].y, ring[2].cx, ring[2].cy, crEnd) <= Tolerance
    /\ OffCircle(ring[2].cx, ring[2].cy, shape.cx, shape.cy, innerRadius + crEnd) <= Tolerance
    /\ mathAbs(OffEdge(ring[2].cx, ring[2].cy, shape.endAngle) - crEnd) <= Tolerance

\* The inner ring with the two fillets merged into one arc.
MergedInnerRing(ring, crEnd) ==
    /\ Len(ring) = 2
    /\ StartsAtEndFillet(ring, crEnd)
    /\ ring[2].radius = clamp.limitedIcrMax
    /\ (ring[2].cx # shape.cx \/ ring[2].cy # shape.cy)

\* The inner ring with two fillets: the end fillet, the arc about the centre,
\* the start fillet.
FilletedInnerRing(ring, crStart, crEnd) ==
    /\ Len(ring) = 4
    /\ StartsAtEndFillet(ring, crEnd)
    /\ \A i \in 3..4 : ring[i].op = "arc"
    /\ ring[2].radius = crEnd
    /\ ring[3].cx = shape.cx /\ ring[3].cy = shape.cy
    /\ ring[3].radius = innerRadius
    /\ ring[4].radius = crStart
    /\ OffCircle(ring[4].cx, ring[4].cy, shape.cx, shape.cy, innerRadius + crStart) <= Tolerance
    /\ mathAbs(OffEdge(ring[4].cx, ring[4].cy, shape.startAngle) - crStart) <= Tolerance

\* The computeCornerTangents calls made for the inner ring.
InnerTangentCalls == SelectSeq(TangentCalls, LAMBDA c : c.cr < 0)

\* The inner ring of a general sector, case by case.
InnerRingAsOrdered(crStart, crEnd) ==
    IF ~(innerRadius > e) \/ ~(arc > e)
    THEN InnerRingOutput = EdgeToInnerPoint /\ InnerTangentCalls = <<>>
    ELSE /\ InnerRingOutput # EdgeToInnerPoint
         /\ \E i \in 1..Len(InnerRingOutput) : InnerRingOutput[i].op = "arc"
         /\ IF ~(clamp.limitedIcrMax > e)
            THEN InnerRingOutput = PlainInnerRing /\ InnerTangentCalls = <<>>
            ELSE /\ InnerTangentCalls = <<TangentCall(innerRadius, 0 - crEnd),
                                          TangentCall(innerRadius, 0 - crStart)>>
                 /\ IF clamp.limitedIcrMax < clamp.icrMax
                    THEN MergedInnerRing(InnerRingOutput, crEnd)
                    ELSE FilletedInnerRing(InnerRingOutput, crStart, crEnd)

\* C20: in a general sector the inner ring is a LineTo to the inner-radius
\* point at endAngle, with no arc, exactly when the inner radius or the sweep
\* is at most epsilon; otherwise it is the plain inner arc from endAngle to
\* startAngle, or with inner fillets LineTo(tangent point of the end fillet)
\* followed by one merged arc (limitedIcrMax < icrMax) or by the end fillet,
\* the arc about the centre with the inner radius and the start fillet, the
\* fillets built with negated radii, end fillet first; the inner ring comes
\* after all commands of the outer ring, and only ClosePath comes after it.
C20_InnerRingOrder ==
    /\ []((InSector /\ pc \in {"close", "done"})
          => InnerRingAsOrdered(mathMin(cornerRadii[1], clamp.limitedIcrMax),
                                mathMin(cornerRadii[2], clamp.limitedIcrMax)))
    /\ [][(InSector /\ pc = "inner")
          => /\ Len(cmds) = OuterRingLen
             /\ IsPrefix(cmds, cmds')
             /\ Len(cmds') > Len(cmds)
             /\ pc' = "close"]_vars
    /\ [][pc = "close" => cmds' = Append(cmds, ClosePathCmd) /\ pc' = "done"]_vars

\* An annular sector whose inner ring has two fillets of different radii.
C20_Witness ==
    /\ pc = "done"
    /\ InSector
    /\ Len(InnerRingOutput) = 4
    /\ InnerRingOutput[1].op = "lineTo"
    /\ InnerRingOutput[2].radius = 2 * Scale
    /\ InnerRingOutput[4].radius = Scale
    /\ InnerTangentCalls = <<TangentCall(innerRadius, 0 - 2 * Scale),
                             TangentCall(innerRadius, 0 - Scale)>>


\* The outer ring, once drawn, is the merged one, and likewise the inner ring.
OuterMerged ==
    /\ InSector
    /\ arc > e
    /\ pc # "outer"
    /\ clamp.limitedOcrMax > e
    /\ clamp.limitedOcrMax < clamp.ocrMax

InnerMerged ==
    /\ InSector
    /\ arc > e
    /\ innerRadius > e
    /\ pc \in {"close", "done"}
    /\ clamp.limitedIcrMax > e
    /\ clamp.limitedIcrMax < clamp.icrMax

\* The merged arc `a`, entered from the point `from`, is consistent with the
\* computeCornerTangents call `call` that built its centre: the arc has the
\* radius `bound`, the centre was built with that radius, and the point the
\* path is at lies on the arc's circle.
MergedConsistent(from, a, call, bound) ==
    /\ a.op = "arc"
    /\ a.radius = bound
    /\ mathAbs(call.cr) = bound
    /\ OffCircle(from.x, from.y, a.cx, a.cy, bound) <= Tolerance

\* C21: in every merged case the single arc has the limited bound as its
\* radius, the fillet centre it is drawn around was built by
\* computeCornerTangents with that same radius, and the arc starts at the
\* point the path is at (the first fillet's tangent point), whatever the two
\* requested corner radii of the ring are.
C21_MergedArcConsistent ==
    /\ OuterMerged
       => MergedConsistent(cmds[1], cmds[2], OuterTangentCalls[1],
                           clamp.limitedOcrMax)
    /\ InnerMerged
       => MergedConsistent(InnerRingOutput[1], InnerRingOutput[2],
                           InnerTangentCalls[1], clamp.limitedIcrMax)

\* The same for the calls in which the first fillet of the ring (the start
\* fillet outside, the end fillet inside) requests at least the bound.
C21_MergedArcFirstFilletAtBound ==
    /\ (OuterMerged /\ ~(cornerRadii[3] < clamp.limitedOcrMax))
       => MergedConsistent(cmds[1], cmds[2], OuterTangentCalls[1],
                           clamp.limitedOcrMax)
    /\ (InnerMerged /\ ~(cornerRadii[2] < clamp.limitedIcrMax))
       => MergedConsistent(InnerRingOutput[1], InnerRingOutput[2],
                           InnerTangentCalls[1], clamp.limitedIcrMax)

\* A merged outer arc whose start fillet requested less than the bound, and a
\* merged inner arc whose end fillet did.
C21_OuterUnequal ==
    OuterMerged /\ cornerRadii[3] < clamp.limitedOcrMax

C21_InnerUnequal ==
    InnerMerged /\ cornerRadii[2] < clamp.limitedIcrMax

===========================================================================
